---- MODULE Spec2Model ----
(***************************************************************************)
(* Model of server.js: a storefront with a session cart, a JSON-file       *)
(* catalog / order / user store, checkout and authentication.              *)
(* Strings that the code parses or validates are sequences of one-char     *)
(* strings, e.g. <<"2", "x">> for "2x".                                    *)
(***************************************************************************)
EXTENDS Integers, Sequences, FiniteSets, TLC

\* ------------------------------------------------------------------ bounds
MaxQty == 5
MaxLines == 3
MaxQtyShop == 2
MaxQtySystem == 1
MaxOrders == 2
MaxUsers == 2
MaxQtyBasket == 2
MaxOrdersBasket == 1

Sessions == {"s1", "s2"}
ProductIds == {"p1", "p2"}
PidInputs == ProductIds \cup {"nonexistent"}
Prices == {100, 250}

PRODUCTS_FILE == "products"
ORDERS_FILE == "orders"
USERS_FILE == "users"
Files == {PRODUCTS_FILE, ORDERS_FILE, USERS_FILE}

\* the value of a body field the request does not carry
Undefined == <<"undefined">>

\* raw quantity inputs of /cart/add and /cart/update
QtyInputs ==
  { Undefined, <<>>, <<"0">>, <<"1">>, <<"2">>, <<"3">>, <<"-", "2">>,
    <<" ", "2">>, <<"2", "x">>, <<"x", "2">>, <<"2", ".", "5">>, <<"0", "2">> }

VARIABLES
  file,        \* file[f]: the parsed content of data file f
  unreadable,  \* the data files whose read currently throws
  cart,        \* cart[s]: req.session.cart of session s
  userId,      \* userId[s]: req.session.userId of session s, 0 when unset
  pc,          \* pc[s]: where the request of session s in flight stands
  local,       \* local[s]: the locals of the suspended async handler of s
  nextId,      \* the number of uuids drawn so far
  last         \* the request handled by the last step and its response

vars == <<file, unreadable, cart, userId, pc, local, nextId, last>>

\* ------------------------------------------------------------ file access
\* the Number Infinity, above every finite Number the model computes, and the
\* null that JSON has in its place
Infinity == 1000000000
Null == 0 - Infinity

\* JSON.stringify of a Number, read back by JSON.parse
stringifyNumber(n) == IF n = Infinity THEN Null ELSE n

stringifyItem(item) ==
  [item EXCEPT !.price = stringifyNumber(@), !.quantity = stringifyNumber(@),
               !.subtotal = stringifyNumber(@)]

\* JSON.stringify(data, null, 2) as JSON.parse gives it back: of what the
\* files hold, only the Numbers of the orders can change
stringify(filePath, data) ==
  IF filePath = ORDERS_FILE
  THEN [i \in DOMAIN data |->
          [data[i] EXCEPT
             !.items = [k \in DOMAIN data[i].items |-> stringifyItem(data[i].items[k])],
             !.total = stringifyNumber(@)]]
  ELSE data

readJson(filePath, fallback) ==
  IF filePath \in unreadable THEN fallback ELSE file[filePath]

writeJson(filePath, data) ==
  /\ file' = [file EXCEPT ![filePath] = stringify(filePath, data)]
  /\ unreadable' = unreadable \ {filePath}

\* --------------------------------------------------------------- parseInt
\* the white space String.prototype.trim, parseInt and the regex class \s know
IsSpace(c) == c \in {" ", "\t", "\n"}
IsDigit(c) == c \in {"0", "1", "2", "3", "4", "5", "6", "7", "8", "9"}
DigitVal(c) ==
  CASE c = "0" -> 0 [] c = "1" -> 1 [] c = "2" -> 2 [] c = "3" -> 3
    [] c = "4" -> 4 [] c = "5" -> 5 [] c = "6" -> 6 [] c = "7" -> 7
    [] c = "8" -> 8 [] c = "9" -> 9

RECURSIVE trimStart(_)
trimStart(str) ==
  IF str # <<>> /\ IsSpace(Head(str)) THEN trimStart(Tail(str)) ELSE str

RECURSIVE trimEnd(_)
trimEnd(str) ==
  IF str # <<>> /\ IsSpace(str[Len(str)])
  THEN trimEnd(SubSeq(str, 1, Len(str) - 1)) ELSE str

trim(str) == trimEnd(trimStart(str))

\* the least index of a non-empty set of indexes
firstIndex(indexes) == CHOOSE k \in indexes : \A m \in indexes : k <= m

\* the part of str before its first character that is no digit
digitPrefix(str) ==
  LET stops == {k \in DOMAIN str : ~IsDigit(str[k])}
  IN IF stops = {} THEN str ELSE SubSeq(str, 1, firstIndex(stops) - 1)

RECURSIVE digitsValue(_, _)
digitsValue(digits, acc) ==
  IF digits = <<>> THEN acc
  ELSE digitsValue(Tail(digits), 10 * acc + DigitVal(Head(digits)))

NaN == [nan |-> TRUE, val |-> 0]

\* the arithmetic of Numbers with Infinity
plus(a, b) == IF a = Infinity \/ b = Infinity THEN Infinity ELSE a + b
times(a, b) == IF a = Infinity \/ b = Infinity THEN Infinity ELSE a * b

\* Number.MAX_VALUE has 309 digits: an integer of more digits is Infinity
MaxFiniteDigits == 309

\* the digits from the first that is not 0 on
dropZeros(digits) ==
  LET significant == {k \in DOMAIN digits : digits[k] # "0"}
  IN IF significant = {} THEN <<>>
     ELSE SubSeq(digits, firstIndex(significant), Len(digits))

\* parseInt(x, 10): leading white space, an optional sign, then the longest
\* run of digits; NaN when that run is empty, Infinity when its value is
\* beyond the Numbers
parseInt(str) ==
  LET t == trimStart(str)
      signed == t # <<>> /\ Head(t) \in {"-", "+"}
      body == IF signed THEN Tail(t) ELSE t
      digits == digitPrefix(body)
      magnitude == IF Len(dropZeros(digits)) > MaxFiniteDigits THEN Infinity
                   ELSE digitsValue(digits, 0)
  IN IF digits = <<>> THEN NaN
     ELSE [nan |-> FALSE,
           val |-> IF signed /\ Head(t) = "-" THEN 0 - magnitude ELSE magnitude]

\* ---------------------------------------------------------------- catalog
NameOf(id) == <<"name of", id>>

\* products.find((p) => p.id = id): an assignment where the comparison
\* belongs, true of the first product whatever its id
findProductByIdAssign(products, id) ==
  IF products = <<>> THEN <<>> ELSE <<Head(products)>>

\* an optional value: <<>> when products.find finds nothing, <<p>> otherwise
RECURSIVE findProductById(_, _)
findProductById(products, id) ==
  IF products = <<>> THEN <<>>
  ELSE IF Head(products).id = id THEN <<Head(products)>>
  ELSE findProductById(Tail(products), id)

RECURSIVE reduceSubtotal(_, _)
reduceSubtotal(items, sum) ==
  IF items = <<>> THEN sum
  ELSE reduceSubtotal(Tail(items), plus(sum, Head(items).subtotal))

\* the subtotal without the quantity
subtotalOfUnit(product, ci) == product.price

\* const subtotal = product.price * ci.quantity
subtotalOf(product, ci) == times(product.price, ci.quantity)

getCartDetailed(products, cartLines) ==
  LET mapped == [i \in DOMAIN cartLines |->
                   LET ci == cartLines[i]
                       product == findProductById(products, ci.productId)
                   IN IF product = <<>> THEN <<>>
                      ELSE << [productId |-> ci.productId,
                               name |-> product[1].name,
                               price |-> product[1].price,
                               quantity |-> ci.quantity,
                               subtotal |-> subtotalOf(product[1], ci)] >>]
      kept == SelectSeq(mapped, LAMBDA m : m # <<>>)
      items == [i \in DOMAIN kept |-> kept[i][1]]
  IN [items |-> items, total |-> reduceSubtotal(items, 0)]

\* --------------------------------------------------------------- requests
NoView == [items |-> <<>>, total |-> 0]

NoForm == [name |-> <<>>, email |-> <<>>, address |-> <<>>]

\* what the last step handled: the route, the session, the body (productId and
\* raw quantity, or the checkout form), and the response: its kind, the priced
\* cart and the field errors handed to the view, the orders handed to the
\* orders view
Request(op, s) ==
  [op |-> op, sid |-> s, pid |-> "-", raw |-> <<>>, form |-> NoForm,
   outcome |-> "-", view |-> NoView, errors |-> {}, shown |-> <<>>]

NoRequest == Request("none", "-")

\* cart.findIndex: the first index whose line has the product, 0 for -1
RECURSIVE findIndexFrom(_, _, _)
findIndexFrom(cartLines, productId, i) ==
  IF i > Len(cartLines) THEN 0
  ELSE IF cartLines[i].productId = productId THEN i
  ELSE findIndexFrom(cartLines, productId, i + 1)

findIndex(cartLines, productId) == findIndexFrom(cartLines, productId, 1)

splice(seq, idx) == SubSeq(seq, 1, idx - 1) \o SubSeq(seq, idx + 1, Len(seq))

Init ==
  /\ file \in [Files -> {<<>>}]
  /\ unreadable = {}
  /\ cart = [s \in Sessions |-> <<>>]
  /\ userId = [s \in Sessions |-> 0]
  /\ pc = [s \in Sessions |-> "idle"]
  /\ local = [s \in Sessions |-> <<>>]
  /\ nextId = [user |-> 0, order |-> 0]
  /\ last = NoRequest

\* requireAuth letting every request through
requireAuthOpen(s) == TRUE

\* requireAuth: TRUE when the request is let through to the handler
requireAuth(s) == userId[s] # 0

\* GET /cart
GetCart(s) ==
  LET products == readJson(PRODUCTS_FILE, <<>>)
      detailed == getCartDetailed(products, cart[s])
  IN /\ pc[s] = "idle"
     /\ last' = [Request("GET /cart", s) EXCEPT !.outcome = "rendered", !.view = detailed]
     /\ UNCHANGED <<file, unreadable, cart, userId, pc, local, nextId>>

\* the line pushed without looking for an existing one
cartAfterAddPush(cartLines, productId, quantity) ==
  Append(cartLines, [productId |-> productId, quantity |-> quantity])

\* existing.quantity = quantity where += belongs
cartAfterAddAssign(cartLines, productId, quantity) ==
  LET existing == findIndex(cartLines, productId)
  IN IF existing > 0
     THEN [cartLines EXCEPT ![existing].quantity = quantity]
     ELSE Append(cartLines, [productId |-> productId, quantity |-> quantity])

\* the session cart after the body of POST /cart/add has run
cartAfterAdd(cartLines, productId, quantity) ==
  LET existing == findIndex(cartLines, productId)
  IN IF existing > 0
     THEN [cartLines EXCEPT ![existing].quantity = plus(@, quantity)]
     ELSE Append(cartLines, [productId |-> productId, quantity |-> quantity])

\* POST /cart/add
PostCartAdd(s, productId, rawQuantity) ==
  LET parsed == parseInt(rawQuantity)
      quantity == IF parsed.nan \/ parsed.val <= 0 THEN 1 ELSE parsed.val
      products == readJson(PRODUCTS_FILE, <<>>)
      product == findProductById(products, productId)
      after == cartAfterAdd(cart[s], productId, quantity)
  IN /\ pc[s] = "idle"
     /\ IF product = <<>>
        THEN /\ cart' = cart
             /\ last' = [Request("POST /cart/add", s) EXCEPT !.pid = productId, !.raw = rawQuantity, !.outcome = "400"]
        ELSE /\ cart' = [cart EXCEPT ![s] = after]
             /\ last' = [Request("POST /cart/add", s) EXCEPT !.pid = productId, !.raw = rawQuantity, !.outcome = "added"]
     /\ UNCHANGED <<file, unreadable, userId, pc, local, nextId>>

\* cart[idx].quantity += quantity where = belongs
cartAfterUpdateAdd(cartLines, productId, quantity) ==
  LET idx == findIndex(cartLines, productId)
  IN IF idx > 0
     THEN IF quantity = 0 THEN splice(cartLines, idx)
          ELSE [cartLines EXCEPT ![idx].quantity = @ + quantity]
     ELSE cartLines

\* the session cart after the body of POST /cart/update has run
cartAfterUpdate(cartLines, productId, quantity) ==
  LET idx == findIndex(cartLines, productId)
  IN IF idx > 0
     THEN IF quantity = 0 THEN splice(cartLines, idx)
          ELSE [cartLines EXCEPT ![idx].quantity = quantity]
     ELSE cartLines

\* POST /cart/update
PostCartUpdate(s, productId, rawQuantity) ==
  LET parsed == parseInt(rawQuantity)
      quantity == IF parsed.nan \/ parsed.val < 0 THEN 0 ELSE parsed.val
      after == cartAfterUpdate(cart[s], productId, quantity)
  IN /\ pc[s] = "idle"
     /\ cart' = [cart EXCEPT ![s] = after]
     /\ last' = [Request("POST /cart/update", s) EXCEPT !.pid = productId, !.raw = rawQuantity, !.outcome = "updated"]
     /\ UNCHANGED <<file, unreadable, userId, pc, local, nextId>>

\* one cart shared by the sessions: the product leaves every cart
PostCartRemoveShared(s, productId) ==
  /\ pc[s] = "idle"
  /\ cart' = [t \in Sessions |-> SelectSeq(cart[t], LAMBDA it : it.productId # productId)]
  /\ last' = [Request("POST /cart/remove", s) EXCEPT !.pid = productId, !.outcome = "removed"]
  /\ UNCHANGED <<file, unreadable, userId, pc, local, nextId>>

\* POST /cart/remove
PostCartRemove(s, productId) ==
  /\ pc[s] = "idle"
  /\ cart' = [cart EXCEPT ![s] = SelectSeq(@, LAMBDA it : it.productId # productId)]
  /\ last' = [Request("POST /cart/remove", s) EXCEPT !.pid = productId, !.outcome = "removed"]
  /\ UNCHANGED <<file, unreadable, userId, pc, local, nextId>>

\* --------------------------------------------------------------- checkout
\* /^[^\s@]+@[^\s@]+\.[^\s@]+$/.test(str)
NoSpaceAt(str, from, to) ==
  \A k \in from..to : ~IsSpace(str[k]) /\ str[k] # "@"

emailPattern(str) ==
  \E i \in 2..Len(str) :
    /\ str[i] = "@"
    /\ NoSpaceAt(str, 1, i - 1)
    /\ NoSpaceAt(str, i + 1, Len(str))
    /\ \E j \in (i + 2)..(Len(str) - 1) : str[j] = "."

\* !x of a body field: it is missing or the empty string
Falsy(str) == str = Undefined \/ str = <<>>

\* the rules chained with else: the first failing field hides the others
checkoutErrorsFirstOnly(name, email, address) ==
  IF Falsy(name) \/ Len(trim(name)) < 2 THEN {"name"}
  ELSE IF Falsy(email) \/ ~emailPattern(email) THEN {"email"}
  ELSE IF Falsy(address) \/ Len(trim(address)) < 5 THEN {"address"}
  ELSE {}

\* the keys of `errors` after lines 210-212
checkoutErrors(name, email, address) ==
  (IF Falsy(name) \/ Len(trim(name)) < 2 THEN {"name"} ELSE {})
  \cup (IF Falsy(email) \/ ~emailPattern(email) THEN {"email"} ELSE {})
  \cup (IF Falsy(address) \/ Len(trim(address)) < 5 THEN {"address"} ELSE {})

\* GET /checkout
GetCheckout(s) ==
  LET products == readJson(PRODUCTS_FILE, <<>>)
      detailed == getCartDetailed(products, cart[s])
  IN /\ pc[s] = "idle"
     /\ last' = IF ~requireAuth(s)
                THEN [Request("GET /checkout", s) EXCEPT !.outcome = "redirect /auth/login"]
                ELSE IF Len(detailed.items) = 0
                THEN [Request("GET /checkout", s) EXCEPT !.outcome = "redirect /cart"]
                ELSE [Request("GET /checkout", s) EXCEPT !.outcome = "rendered",
                                                         !.view = detailed]
     /\ UNCHANGED <<file, unreadable, cart, userId, pc, local, nextId>>

\* the field errors tested before the empty cart
checkoutOutcomeErrorsFirst(detailed, errors) ==
  IF errors # {} THEN "400"
  ELSE IF Len(detailed.items) = 0 THEN "redirect /cart"
  ELSE "committed"

\* the order committed whatever the field errors
checkoutOutcomeIgnoresErrors(detailed, errors) ==
  IF Len(detailed.items) = 0 THEN "redirect /cart" ELSE "committed"

\* which response POST /checkout gives once past requireAuth (lines 217-223)
checkoutOutcome(detailed, errors) ==
  IF Len(detailed.items) = 0 THEN "redirect /cart"
  ELSE IF errors # {} THEN "400"
  ELSE "committed"

\* the order built at lines 226-233
newOrder(id, user, form, detailed) ==
  [id |-> id, userId |-> user, customer |-> form,
   items |-> detailed.items, total |-> detailed.total]

\* orders whose items stay live references to the catalog: every write prices
\* the stored orders again
pushOrderLive(orders, order) ==
  Append([i \in DOMAIN orders |->
            LET again == getCartDetailed(readJson(PRODUCTS_FILE, <<>>), orders[i].items)
            IN [orders[i] EXCEPT !.items = again.items, !.total = again.total]],
         order)

\* orders.push(order), the array then written to the orders file
pushOrder(orders, order) == Append(orders, order)

\* the session cart left as it is after the order is written
cartKeptAfterCommit(cartLines) == cartLines

\* req.session.cart = [] after the order is written
cartAfterCommit(cartLines) == <<>>

\* POST /checkout
PostCheckout(s, name, email, address) ==
  LET form == [name |-> name, email |-> email, address |-> address]
      errors == checkoutErrors(name, email, address)
      products == readJson(PRODUCTS_FILE, <<>>)
      detailed == getCartDetailed(products, cart[s])
      outcome == IF ~requireAuth(s) THEN "redirect /auth/login"
                 ELSE checkoutOutcome(detailed, errors)
      orders == readJson(ORDERS_FILE, <<>>)
      order == newOrder(nextId.order + 1, userId[s], form, detailed)
      request == [Request("POST /checkout", s) EXCEPT !.form = form,
                                                       !.outcome = outcome]
  IN /\ pc[s] = "idle"
     /\ IF outcome = "committed"
        THEN /\ nextId.order < MaxOrders
             /\ nextId' = [nextId EXCEPT !.order = @ + 1]
             /\ writeJson(ORDERS_FILE, pushOrder(orders, order))
             /\ cart' = [cart EXCEPT ![s] = cartAfterCommit(@)]
             /\ last' = request
        ELSE /\ last' = IF outcome = "400"
                        THEN [request EXCEPT !.errors = errors, !.view = detailed]
                        ELSE request
             /\ UNCHANGED <<file, unreadable, cart, nextId>>
     /\ UNCHANGED <<userId, pc, local>>

\* GET /orders
GetOrders(s) ==
  LET orders == readJson(ORDERS_FILE, <<>>)
      myOrders == SelectSeq(orders, LAMBDA o : o.userId = userId[s])
  IN /\ pc[s] = "idle"
     /\ last' = IF ~requireAuth(s)
                THEN [Request("GET /orders", s) EXCEPT !.outcome = "redirect /auth/login"]
                ELSE [Request("GET /orders", s) EXCEPT !.outcome = "rendered",
                                                       !.shown = myOrders]
     /\ UNCHANGED <<file, unreadable, cart, userId, pc, local, nextId>>

\* --------------------------------------------------------- authentication
UpperCase == <<"A", "B", "C">>
LowerCase == <<"a", "b", "c">>

toLowerCase(str) ==
  [k \in DOMAIN str |->
     IF \E u \in DOMAIN UpperCase : UpperCase[u] = str[k]
     THEN LowerCase[CHOOSE u \in DOMAIN UpperCase : UpperCase[u] = str[k]]
     ELSE str[k]]

\* bcrypt.hash and bcrypt.compare
bcryptHash(password) == <<"bcrypt", password>>
bcryptCompare(password, hash) == hash = bcryptHash(password)

\* users.find with the emails compared as they are, without toLowerCase
findUserByEmailExact(users, email) ==
  LET wanted == IF Falsy(email) THEN <<>> ELSE email
      found == SelectSeq(users, LAMBDA u : u.email = wanted)
  IN IF found = <<>> THEN <<>> ELSE <<Head(found)>>

\* users.find((u) => u.email.toLowerCase() === (email || '').toLowerCase())
RECURSIVE findUserByEmail(_, _)
findUserByEmail(users, email) ==
  LET wanted == toLowerCase(IF Falsy(email) THEN <<>> ELSE email)
  IN IF users = <<>> THEN <<>>
     ELSE IF toLowerCase(Head(users).email) = wanted THEN <<Head(users)>>
     ELSE findUserByEmail(Tail(users), email)

\* the keys of `errors` after lines 252-261
registerErrors(users, name, email, password, confirmPassword) ==
  (IF Falsy(name) \/ Len(trim(name)) < 2 THEN {"name"} ELSE {})
  \cup (IF Falsy(email) \/ ~emailPattern(email) THEN {"email"} ELSE {})
  \cup (IF Falsy(password) \/ Len(password) < 6 THEN {"password"} ELSE {})
  \cup (IF password # confirmPassword THEN {"confirmPassword"} ELSE {})
  \cup (IF findUserByEmail(users, email) # <<>> THEN {"email"} ELSE {})

\* POST /auth/register, up to `await bcrypt.hash`
PostRegister(s, name, email, password, confirmPassword) ==
  LET users == readJson(USERS_FILE, <<>>)
      errors == registerErrors(users, name, email, password, confirmPassword)
  IN /\ pc[s] = "idle"
     /\ IF errors # {}
        THEN /\ last' = [Request("POST /auth/register", s) EXCEPT !.outcome = "400",
                                                                !.errors = errors]
             /\ UNCHANGED <<pc, local>>
        ELSE /\ pc' = [pc EXCEPT ![s] = "register"]
             /\ local' = [local EXCEPT ![s] =
                            <<[users |-> users, name |-> name, email |-> email,
                               password |-> password]>>]
             /\ last' = [Request("POST /auth/register", s) EXCEPT !.outcome = "await"]
     /\ UNCHANGED <<file, unreadable, cart, userId, nextId>>

\* POST /auth/register, from the resumption after `await bcrypt.hash`
RegisterResume(s) ==
  /\ pc[s] = "register"
  /\ nextId.user < MaxUsers
  /\ LET l == local[s][1]
         user == [id |-> nextId.user + 1,
                  name |-> trim(l.name),
                  email |-> toLowerCase(trim(l.email)),
                  passwordHash |-> bcryptHash(l.password)]
     IN /\ writeJson(USERS_FILE, Append(l.users, user))
        /\ userId' = [userId EXCEPT ![s] = user.id]
  /\ nextId' = [nextId EXCEPT !.user = @ + 1]
  /\ pc' = [pc EXCEPT ![s] = "idle"]
  /\ local' = [local EXCEPT ![s] = <<>>]
  /\ last' = [Request("POST /auth/register", s) EXCEPT !.outcome = "registered"]
  /\ UNCHANGED cart

\* POST /auth/login, up to `await bcrypt.compare`
PostLogin(s, email, password) ==
  LET users == readJson(USERS_FILE, <<>>)
      user == findUserByEmail(users, email)
  IN /\ pc[s] = "idle"
     /\ IF user = <<>>
        THEN /\ last' = [Request("POST /auth/login", s) EXCEPT !.outcome = "400",
                                                             !.errors = {"email"}]
             /\ UNCHANGED <<pc, local>>
        ELSE /\ pc' = [pc EXCEPT ![s] = "login"]
             /\ local' = [local EXCEPT ![s] =
                            <<[user |-> user[1],
                               password |-> IF Falsy(password) THEN <<>> ELSE password]>>]
             /\ last' = [Request("POST /auth/login", s) EXCEPT !.outcome = "await"]
     /\ UNCHANGED <<file, unreadable, cart, userId, nextId>>

\* POST /auth/login, from the resumption after `await bcrypt.compare`
LoginResume(s) ==
  /\ pc[s] = "login"
  /\ LET l == local[s][1]
         ok == bcryptCompare(l.password, l.user.passwordHash)
     IN IF ~ok
        THEN /\ last' = [Request("POST /auth/login", s) EXCEPT !.outcome = "400",
                                                             !.errors = {"email"}]
             /\ userId' = userId
        ELSE /\ userId' = [userId EXCEPT ![s] = l.user.id]
             /\ last' = [Request("POST /auth/login", s) EXCEPT !.outcome = "logged in"]
  /\ pc' = [pc EXCEPT ![s] = "idle"]
  /\ local' = [local EXCEPT ![s] = <<>>]
  /\ UNCHANGED <<file, unreadable, cart, nextId>>

\* POST /auth/logout
PostLogout(s) ==
  /\ pc[s] = "idle"
  /\ userId' = [userId EXCEPT ![s] = 0]
  /\ last' = [Request("POST /auth/logout", s) EXCEPT !.outcome = "logged out"]
  /\ UNCHANGED <<file, unreadable, cart, pc, local, nextId>>

\* ------------------------------------------------------------ environment
Resolves(catalog, productId) == \E k \in DOMAIN catalog : catalog[k].id = productId

\* every catalog the products file can hold: ids unique, in a fixed order
RECURSIVE CatalogsOver(_)
CatalogsOver(ids) ==
  IF ids = <<>> THEN {<<>>}
  ELSE LET rest == CatalogsOver(Tail(ids))
       IN rest \cup
          { <<[id |-> Head(ids), name |-> NameOf(Head(ids)), price |-> pr]>> \o r :
              pr \in Prices, r \in rest }

Catalogs == CatalogsOver(<<"p1", "p2">>)

\* the shop's owner edits products.json (a price, a product added or removed)
CatalogChange(products) ==
  /\ products # file[PRODUCTS_FILE]
  /\ file' = [file EXCEPT ![PRODUCTS_FILE] = products]
  /\ last' = Request("catalog", "-")
  /\ UNCHANGED <<unreadable, cart, userId, pc, local, nextId>>

\* a data file becomes unreadable (missing, locked, not JSON) or readable again
ReadFault(f) ==
  /\ unreadable' = IF f \in unreadable THEN unreadable \ {f} ELSE unreadable \cup {f}
  /\ last' = Request("fault", "-")
  /\ UNCHANGED <<file, cart, userId, pc, local, nextId>>

\* ----------------------------------------------------------------- inputs
GoodName == <<"A", "l">>
GoodEmail == <<"a", "@", "b", ".", "c", "o">>
GoodAddress == <<"1", "2", "3", "4", "5">>
GoodPassword == <<"s", "e", "c", "r", "e", "t">>

NameInputs == {GoodName, <<"A">>}
EmailInputs == {GoodEmail, <<"b", "a", "d">>}
AddressInputs == {GoodAddress, <<"1", "2", "3">>}

Forms == [name : NameInputs, email : EmailInputs, address : AddressInputs]
GoodForm == [name |-> GoodName, email |-> GoodEmail, address |-> GoodAddress]
BadForm == [name |-> <<"A">>, email |-> <<"b", "a", "d">>, address |-> <<"1", "2", "3">>]

\* no cart line holds a finite quantity of more than cap units
CartWithin(cap) ==
  \A s \in Sessions : \A i \in DOMAIN cart[s] :
    cart[s][i].quantity <= cap \/ cart[s][i].quantity = Infinity

CartNext(S, pids, quantities, catalogs, cap) ==
  \/ \E s \in S : GetCart(s)
  \/ \E s \in S, p \in pids, q \in quantities : PostCartAdd(s, p, q) /\ CartWithin(cap)'
  \/ \E s \in S, p \in pids, q \in quantities : PostCartUpdate(s, p, q) /\ CartWithin(cap)'
  \/ \E s \in S, p \in pids : PostCartRemove(s, p)
  \/ \E c \in catalogs : CatalogChange(c)

CheckoutNext(S, forms) ==
  \/ \E s \in S : GetCheckout(s)
  \/ \E s \in S, f \in forms : PostCheckout(s, f.name, f.email, f.address)
  \/ \E s \in S : GetOrders(s)

RegisterNext(S, emails, passwords) ==
  \/ \E s \in S, e \in emails, p \in passwords : PostRegister(s, GoodName, e, p, p)
  \/ \E s \in S : RegisterResume(s)

LoginNext(S, emails, passwords) ==
  \/ \E s \in S, e \in emails, p \in passwords : PostLogin(s, e, p)
  \/ \E s \in S : LoginResume(s)
  \/ \E s \in S : PostLogout(s)

\* one session and the cart routes, with every quantity input
NextCart ==
  \/ CartNext({"s1"}, PidInputs, QtyInputs, Catalogs, MaxQty)
  \/ ReadFault(PRODUCTS_FILE)

SpecCart == Init /\ [][NextCart]_vars

\* one session that registers, shops and checks out; two products
ShopCatalogs ==
  { c \in Catalogs : \A i \in DOMAIN c : c[i].id = "p2" => c[i].price = 250 }

ShopForms ==
  { GoodForm, BadForm, [GoodForm EXCEPT !.name = <<"A">>],
    [BadForm EXCEPT !.name = GoodName] }

NextShop ==
  \/ CartNext({"s1"}, ProductIds, {<<"2">>}, ShopCatalogs, MaxQtyShop)
  \/ CheckoutNext({"s1"}, ShopForms)
  \/ RegisterNext({"s1"}, {GoodEmail}, {GoodPassword})

SpecShop == Init /\ [][NextShop]_vars

\* two sessions that register, shop, check out and log out; one product
PublishedCatalog == <<[id |-> "p1", name |-> NameOf("p1"), price |-> 100]>>

Next ==
  \/ CartNext(Sessions, {"p1"}, {<<"1">>}, {PublishedCatalog}, MaxQtySystem)
  \/ CheckoutNext(Sessions, {GoodForm, BadForm})
  \/ RegisterNext(Sessions, {GoodEmail}, {GoodPassword})
  \/ \E s \in Sessions : PostLogout(s)
  \/ ReadFault(ORDERS_FILE)

Spec == Init /\ [][Next]_vars

\* two sessions and the authentication routes alone
MixedCaseEmail == <<"A", "@", "b", ".", "c", "o">>
WrongPassword == <<"w", "r", "o", "n", "g", "!">>

NextAuth ==
  \/ RegisterNext(Sessions, {GoodEmail, MixedCaseEmail}, {GoodPassword})
  \/ LoginNext(Sessions, {GoodEmail, MixedCaseEmail}, {GoodPassword, WrongPassword})
  \/ ReadFault(USERS_FILE)

SpecAuth == Init /\ [][NextAuth]_vars

\* getCartDetailed alone, applied by GET /cart to every cart and catalog
RECURSIVE LinesUpTo(_)
LinesUpTo(n) ==
  IF n = 0 THEN {<<>>}
  ELSE LET shorter == LinesUpTo(n - 1)
       IN shorter \cup
          { Append(c, [productId |-> p, quantity |-> q]) :
              c \in {x \in shorter : Len(x) = n - 1}, p \in PidInputs, q \in 1..MaxQtyShop }

InitReconcile ==
  /\ \E c \in Catalogs : file = [f \in Files |-> IF f = PRODUCTS_FILE THEN c ELSE <<>>]
  /\ unreadable = {}
  /\ \E lines \in LinesUpTo(MaxLines) :
       cart = [s \in Sessions |-> IF s = "s1" THEN lines ELSE <<>>]
  /\ userId = [s \in Sessions |-> 0]
  /\ pc = [s \in Sessions |-> "idle"]
  /\ local = [s \in Sessions |-> <<>>]
  /\ nextId = [user |-> 0, order |-> 0]
  /\ last = NoRequest

NextReconcile == GetCart("s1")

SpecReconcile == InitReconcile /\ [][NextReconcile]_vars

\* the checkout validator alone, applied by POST /checkout to every form, the
\* session registered, over several carts and catalogs
ValidateNames ==
  { Undefined, <<"A">>, <<"A", "l">>, <<" ", "A", " ">>, <<"\t", "A", "l">> }

ValidateEmails ==
  { <<>>, <<"b", "a", "d">>, <<"a", "@", "b", ".", "c", "o">>,
    <<"@", "b", ".", "c">>, <<"a", "@", ".", "c">>, <<"a", "@", "b", ".">>,
    <<"a", " ", "@", "b", ".", "c">>, <<"a", "@", "b", ".", "c", "@">>,
    <<"a", "@", "b", ".", "c", ".", "d">> }

ValidateAddresses ==
  { Undefined, <<"1", "2", "3">>, <<"1", "2", "3", "4", "5">>,
    <<" ", "1", "2", "3", "4", " ">>, <<"1", " ", "2", " ", "3">> }

ValidateForms ==
  [name : ValidateNames, email : ValidateEmails, address : ValidateAddresses]

RegisteredUser ==
  [id |-> 1, name |-> GoodName, email |-> GoodEmail,
   passwordHash |-> bcryptHash(GoodPassword)]

ValidateCarts ==
  { <<>>, <<[productId |-> "p1", quantity |-> 1]>>,
    <<[productId |-> "p2", quantity |-> 1], [productId |-> "p1", quantity |-> 2]>> }

ValidateCatalogs ==
  {c \in ShopCatalogs : \A i \in DOMAIN c : c[i].id = "p1" /\ c[i].price = 100}

InitValidate ==
  /\ \E c \in ValidateCatalogs :
       file = [f \in Files |-> IF f = PRODUCTS_FILE THEN c
                               ELSE IF f = USERS_FILE THEN <<RegisteredUser>>
                               ELSE <<>>]
  /\ unreadable = {}
  /\ \E lines \in ValidateCarts :
       cart = [s \in Sessions |-> IF s = "s1" THEN lines ELSE <<>>]
  /\ userId = [s \in Sessions |-> IF s = "s1" THEN 1 ELSE 0]
  /\ pc = [s \in Sessions |-> "idle"]
  /\ local = [s \in Sessions |-> <<>>]
  /\ nextId = [user |-> 1, order |-> 0]
  /\ last = NoRequest

NextValidate == \E f \in ValidateForms : PostCheckout("s1", f.name, f.email, f.address)

SpecValidate == InitValidate /\ [][NextValidate]_vars

\* one session that registers, fills its cart one unit at a time and checks
\* out, products coming and going
BasketCatalogs ==
  {c \in ShopCatalogs : Resolves(c, "p2") /\ \A i \in DOMAIN c : c[i].price = 250}

NextBasket ==
  \/ CartNext({"s1"}, ProductIds, {<<"1">>}, BasketCatalogs, MaxQtyBasket)
  \/ /\ PostCheckout("s1", GoodName, GoodEmail, GoodAddress)
     /\ nextId'.order <= MaxOrdersBasket
  \/ RegisterNext({"s1"}, {GoodEmail}, {GoodPassword})

SpecBasket == Init /\ [][NextBasket]_vars

\* one session and the cart routes, with every quantity input and a run of
\* digits too long for a Number
HugeDigits == [k \in 1..(MaxFiniteDigits + 1) |-> IF k = 1 THEN "1" ELSE "0"]

NextQuantity ==
  CartNext({"s1"}, ProductIds, QtyInputs \cup {HugeDigits}, BasketCatalogs, MaxQtyBasket)

SpecQuantity == Init /\ [][NextQuantity]_vars

\* one session that registers, fills its cart two units or a run of digits
\* too long for a Number at a time, and checks out, the prices changing
NextOrder ==
  \/ CartNext({"s1"}, ProductIds, {<<"2">>, HugeDigits}, ShopCatalogs, MaxQtyShop)
  \/ /\ PostCheckout("s1", GoodName, GoodEmail, GoodAddress)
     /\ nextId'.order <= MaxOrdersBasket
  \/ RegisterNext({"s1"}, {GoodEmail}, {GoodPassword})

SpecOrder == Init /\ [][NextOrder]_vars

\* ----------------------------------------------------------------- claims
OrderStore == file[ORDERS_FILE]
UserStore == file[USERS_FILE]

\* the catalog as the handler of the step reads it
CatalogRead == readJson(PRODUCTS_FILE, <<>>)

PriceIn(catalog, productId) ==
  catalog[CHOOSE k \in DOMAIN catalog : catalog[k].id = productId].price

ResolvableLines(catalog, cartLines) ==
  SelectSeq(cartLines, LAMBDA line : Resolves(catalog, line.productId))

ReconcileRoutes == {"GET /cart", "GET /checkout", "POST /checkout"}
CartRoutes == {"POST /cart/add", "POST /cart/update", "POST /cart/remove"}

\* C1: after a reconciliation (GET /cart, GET /checkout, or a POST /checkout
\* that commits nothing) the stored session cart is exactly the lines of the
\* cart before whose productId resolves in the catalog, in their order.
C1_SelfHealingOnRead ==
  [][ (/\ last'.op \in ReconcileRoutes
       /\ last'.outcome \in {"rendered", "redirect /cart", "400"})
      => cart'[last'.sid] = ResolvableLines(CatalogRead, cart[last'.sid]) ]_vars

\* C2: a commit leaves the session's cart empty; a cart that is empty stays
\* empty until the session adds to it; and a POST /checkout of a session whose
\* cart is empty commits nothing and leaves the order store as it is (an
\* authenticated one is redirected to the cart view).
C2_CartClearedNoResubmit ==
  [][ /\ last'.outcome = "committed" => cart'[last'.sid] = <<>>
      /\ \A s \in Sessions :
           (cart[s] = <<>> /\ ~(last'.op = "POST /cart/add" /\ last'.sid = s))
           => cart'[s] = <<>>
      /\ (last'.op = "POST /checkout" /\ cart[last'.sid] = <<>>)
         => /\ OrderStore' = OrderStore
            /\ last'.outcome # "committed"
            /\ userId[last'.sid] # 0 => last'.outcome = "redirect /cart" ]_vars

\* a valid form submitted again by the session whose order is in the store
C2_Witness ==
  /\ last.op = "POST /checkout"
  /\ last.outcome = "redirect /cart"
  /\ last.form = GoodForm
  /\ cart[last.sid] = <<>>
  /\ file[PRODUCTS_FILE] # <<>>
  /\ \E i \in DOMAIN OrderStore : OrderStore[i].userId = userId[last.sid]

\* C3: a step that commits a checkout appends exactly one order with a fresh
\* id at the end of the store and keeps every stored order in place; every
\* other step leaves the store as it is.
C3_OrderStoreAppendOnly ==
  [][ IF last'.outcome = "committed"
      THEN /\ Len(OrderStore') = Len(OrderStore) + 1
           /\ SubSeq(OrderStore', 1, Len(OrderStore)) = OrderStore
           /\ \A i \in DOMAIN OrderStore :
                OrderStore[i].id # OrderStore'[Len(OrderStore')].id
      ELSE OrderStore' = OrderStore ]_vars

\* C4: a catalog change or a cart route leaves the order store as it is, and
\* in every step an order that is still stored keeps its items (name, price,
\* quantity, subtotal) and its total.
C4_SnapshotImmutable ==
  [][ /\ (last'.op = "catalog" \/ last'.op \in CartRoutes) => OrderStore' = OrderStore
      /\ \A i \in DOMAIN OrderStore : \A j \in DOMAIN OrderStore' :
           OrderStore'[j].id = OrderStore[i].id
           => /\ OrderStore'[j].items = OrderStore[i].items
              /\ OrderStore'[j].total = OrderStore[i].total ]_vars

\* an order priced 100 per unit of p1, the catalog now at 250 and p2 gone, the
\* session having added to its cart since
C4_Witness ==
  /\ last.op = "POST /cart/add"
  /\ last.outcome = "added"
  /\ ~Resolves(file[PRODUCTS_FILE], "p2")
  /\ Resolves(file[PRODUCTS_FILE], "p1")
  /\ PriceIn(file[PRODUCTS_FILE], "p1") = 250
  /\ \E i \in DOMAIN OrderStore :
       /\ Len(OrderStore[i].items) = 2
       /\ \E k \in 1..2 : /\ OrderStore[i].items[k].productId = "p1"
                          /\ OrderStore[i].items[k].price = 100
                          /\ OrderStore[i].items[k].subtotal = 200
       /\ OrderStore[i].total = 700

\* C5: a POST /checkout of an authenticated session none of whose cart lines
\* resolves in the catalog is redirected to the cart view, whatever the form:
\* no field errors are returned, no order is appended, nothing changes.
C5_EmptyCartPrecedence ==
  [][ (/\ last'.op = "POST /checkout"
       /\ userId[last'.sid] # 0
       /\ \A i \in DOMAIN cart[last'.sid] :
            ~Resolves(CatalogRead, cart[last'.sid][i].productId))
      => /\ last'.outcome = "redirect /cart"
         /\ last'.errors = {}
         /\ file' = file
         /\ cart' = cart ]_vars

\* the redirect given to a form whose three fields are invalid, the cart
\* holding a line that no longer resolves
C5_Witness ==
  /\ last.op = "POST /checkout"
  /\ last.outcome = "redirect /cart"
  /\ last.form = BadForm
  /\ cart[last.sid] # <<>>
  /\ OrderStore = <<>>

\* C6: POST /cart/add with a productId the catalog does not resolve answers
\* 400 and leaves every session cart as it is, whatever the quantity input.
C6_AddRejectsUnknown ==
  [][ (last'.op = "POST /cart/add" /\ ~Resolves(CatalogRead, last'.pid))
      => /\ last'.outcome = "400"
         /\ cart' = cart ]_vars

C6_Witness ==
  /\ last.op = "POST /cart/add"
  /\ last.pid = "nonexistent"
  /\ last.raw = <<"1">>
  /\ last.outcome = "400"
  /\ file[PRODUCTS_FILE] # <<>>
  /\ PRODUCTS_FILE \notin unreadable
  /\ Len(cart[last.sid]) = 2

\* the quantity Add works with: the integer parseInt reads, 1 when there is
\* none or it is not positive
AddQuantity(raw) ==
  LET n == parseInt(raw) IN IF ~n.nan /\ n.val >= 1 THEN n.val ELSE 1

HasLine(cartLines, productId) ==
  \E i \in DOMAIN cartLines : cartLines[i].productId = productId

UpdateQuantity(raw) ==
  LET n == parseInt(raw) IN IF ~n.nan /\ n.val >= 0 THEN n.val ELSE 0

Surviving(catalog, cartLines) ==
  {i \in DOMAIN cartLines : Resolves(catalog, cartLines[i].productId)}

NthSurviving(catalog, cartLines, j) ==
  CHOOSE i \in Surviving(catalog, cartLines) :
    Cardinality({k \in Surviving(catalog, cartLines) : k <= i}) = j

RECURSIVE SumOfProducts(_, _)
SumOfProducts(items, n) ==
  IF n = 0 THEN 0
  ELSE SumOfProducts(items, n - 1) + items[n].price * items[n].quantity

\* C9: the priced cart GET /cart renders has one item per cart line that
\* resolves in the catalog, in cart order, with the catalog's price, the
\* line's quantity and subtotal = price x quantity; its total is the sum of
\* the subtotals, 0 when no line resolves.
C9_ReconcileResult ==
  last.op = "GET /cart"
  => LET lines == cart[last.sid]
         catalog == CatalogRead
         items == last.view.items
     IN /\ Len(items) = Cardinality(Surviving(catalog, lines))
        /\ \A j \in DOMAIN items :
             LET line == lines[NthSurviving(catalog, lines, j)]
             IN /\ items[j].productId = line.productId
                /\ items[j].quantity = line.quantity
                /\ items[j].price = PriceIn(catalog, line.productId)
                /\ items[j].subtotal = items[j].price * items[j].quantity
        /\ last.view.total = SumOfProducts(items, Len(items))
        /\ (Surviving(catalog, lines) = {} => last.view = [items |-> <<>>, total |-> 0])

\* price 100 quantity 2 and price 250 quantity 1 give 450, a line between
\* them dropped
C9_Witness ==
  /\ last.op = "GET /cart"
  /\ Len(cart[last.sid]) = 3
  /\ Len(last.view.items) = 2
  /\ last.view.items[1].price = 100 /\ last.view.items[1].quantity = 2
  /\ last.view.items[2].price = 250 /\ last.view.items[2].quantity = 1
  /\ last.view.total = 450

\* C10: the order store changes only by a POST /checkout of a session that
\* carries a user identity, the order appended carrying that identity; a POST
\* /checkout of a session without one is redirected to the login flow and
\* changes nothing.
C10_LoginRequired ==
  [][ /\ OrderStore' # OrderStore
         => /\ last'.op = "POST /checkout"
            /\ userId[last'.sid] # 0
            /\ OrderStore' # <<>>
            /\ OrderStore'[Len(OrderStore')].userId = userId[last'.sid]
      /\ (last'.op = "POST /checkout" /\ userId[last'.sid] = 0)
         => /\ last'.outcome = "redirect /auth/login"
            /\ file' = file
            /\ cart' = cart
      /\ \A i \in DOMAIN OrderStore' : OrderStore'[i].userId # 0 ]_vars

\* one session has committed an order under its identity; the other, without
\* an identity and with a cart that resolves, has been sent to the login flow
C10_Witness ==
  /\ last.op = "POST /checkout"
  /\ last.outcome = "redirect /auth/login"
  /\ last.form = GoodForm
  /\ userId[last.sid] = 0
  /\ cart[last.sid] # <<>>
  /\ Resolves(file[PRODUCTS_FILE], "p1")
  /\ \E s \in Sessions : /\ userId[s] # 0
                         /\ \E i \in DOMAIN OrderStore : OrderStore[i].userId = userId[s]

\* the rules of the checkout validator, field by field
Absent(field) == field = Undefined \/ field = <<>>

TrimmedLength(str) ==
  LET inked == {k \in DOMAIN str : ~IsSpace(str[k])}
  IN IF inked = {} THEN 0
     ELSE (CHOOSE k \in inked : \A m \in inked : m <= k)
          - (CHOOSE k \in inked : \A m \in inked : k <= m) + 1

\* local@domain.tld: one @, no white space, something before the @, and after
\* it a dot with something on both sides
HasEmailShape(str) ==
  LET ats == {k \in DOMAIN str : str[k] = "@"}
  IN /\ Cardinality(ats) = 1
     /\ \A k \in DOMAIN str : ~IsSpace(str[k])
     /\ \A at \in ats : /\ at > 1
                         /\ \E dot \in (at + 2)..(Len(str) - 1) : str[dot] = "."

NameFails(name) == Absent(name) \/ TrimmedLength(name) < 2
EmailFails(email) == Absent(email) \/ ~HasEmailShape(email)
AddressFails(address) == Absent(address) \/ TrimmedLength(address) < 5

FormFails(form) ==
  NameFails(form.name) \/ EmailFails(form.email) \/ AddressFails(form.address)

\* C11: a POST /checkout whose cart has a line that resolves and whose form has
\* a field that fails its rule appends no order and leaves every file and the
\* session cart as they are; the order store changes only by a POST /checkout
\* whose form passes every rule and whose reconciled cart is not empty.
C11_ValidationFailureNoChange ==
  [][ /\ (/\ last'.op = "POST /checkout"
          /\ ResolvableLines(CatalogRead, cart[last'.sid]) # <<>>
          /\ FormFails(last'.form))
         => /\ file' = file
            /\ cart' = cart
            /\ last'.outcome # "committed"
      /\ OrderStore' # OrderStore
         => /\ last'.op = "POST /checkout"
            /\ ~FormFails(last'.form)
            /\ ResolvableLines(CatalogRead, cart[last'.sid]) # <<>>
            /\ Len(OrderStore') = Len(OrderStore) + 1 ]_vars

\* a form with only the name too short refused for a cart that resolves, an
\* order of the session already in the store
C11_Witness ==
  /\ last.op = "POST /checkout"
  /\ last.outcome = "400"
  /\ last.form = [GoodForm EXCEPT !.name = <<"A">>]
  /\ ResolvableLines(file[PRODUCTS_FILE], cart[last.sid]) # <<>>
  /\ Len(OrderStore) = 1

\* the keys the rules give a form
RuleErrors(form) ==
  (IF NameFails(form.name) THEN {"name"} ELSE {})
  \cup (IF EmailFails(form.email) THEN {"email"} ELSE {})
  \cup (IF AddressFails(form.address) THEN {"address"} ELSE {})

\* every subset of the three keys is what the handler's rules give some form
EveryKeySetOccurs ==
  \A keys \in SUBSET {"name", "email", "address"} :
    \E f \in ValidateForms : checkoutErrors(f.name, f.email, f.address) = keys

\* C12: the error mapping POST /checkout returns has the key name exactly when
\* name is absent or its trimmed length is < 2, address exactly when address
\* is absent or its trimmed length is < 5, email exactly when email is absent
\* or lacks the shape local@domain.tld without white space; a form is accepted
\* exactly when no rule fails; every subset of the three keys is the result of
\* some form; the result is the same for every cart and catalog.
C12_ValidationRules ==
  [][ last'.op = "POST /checkout"
      => /\ last'.outcome = "400" => last'.errors = RuleErrors(last'.form)
         /\ last'.outcome = "committed" => RuleErrors(last'.form) = {}
         /\ checkoutErrors(last'.form.name, last'.form.email, last'.form.address)
              = RuleErrors(last'.form)
         /\ EveryKeySetOccurs ]_vars

\* name and address fail, the email passes: two keys together
C12_Witness ==
  /\ last.op = "POST /checkout"
  /\ last.outcome = "400"
  /\ last.form = [name |-> <<" ", "A", " ">>, email |-> GoodEmail,
                  address |-> <<"1", "2", "3">>]
  /\ last.errors = {"name", "address"}
  /\ Len(cart[last.sid]) = 2

\* C13: no two users of the user store have emails that are equal ignoring
\* case, whatever the registrations and logins and however the two halves of
\* the registrations of two sessions interleave.
C13_EmailUnique ==
  \A i \in DOMAIN UserStore : \A j \in DOMAIN UserStore :
    i # j => toLowerCase(UserStore[i].email) # toLowerCase(UserStore[j].email)

\* one session has registered an email while the registration of the other,
\* which passed the uniqueness check on an empty store with that email in
\* another case, waits at the await
C13_Witness ==
  /\ last.op = "POST /auth/register"
  /\ last.outcome = "registered"
  /\ last.sid = "s1"
  /\ pc["s2"] = "register"
  /\ local["s2"][1].users = <<>>
  /\ local["s2"][1].email = MixedCaseEmail
  /\ Len(UserStore) = 1
  /\ UserStore[1].email = GoodEmail
  /\ unreadable = {}

\* C14: a POST /checkout handled while the read of the order store fails
\* writes nothing that drops a stored order: every order in the store before
\* the step is in the store after it.
C14_NoOrderLossOnFailedRead ==
  [][ (last'.op = "POST /checkout" /\ ORDERS_FILE \in unreadable)
      => \A i \in DOMAIN OrderStore :
           \E j \in DOMAIN OrderStore' : OrderStore'[j] = OrderStore[i] ]_vars

\* C15: no two lines of a session cart have the same productId, after any
\* sequence of Add, Update, Remove, reconciliations and checkouts from the
\* empty cart, the catalog changing in between.
C15_ProductIdUnique ==
  \A s \in Sessions : \A i \in DOMAIN cart[s] : \A j \in DOMAIN cart[s] :
    i # j => cart[s][i].productId # cart[s][j].productId

\* an Add of p1 to a cart that already holds p1 behind a line of p2, after an
\* order was committed
C15_Witness ==
  /\ last.op = "POST /cart/add"
  /\ last.outcome = "added"
  /\ last.pid = "p1"
  /\ cart[last.sid] = << [productId |-> "p2", quantity |-> 1],
                         [productId |-> "p1", quantity |-> 2] >>
  /\ Len(OrderStore) = 1

\* C16: every line of a session cart has an integer quantity >= 1, after any
\* sequence of Add, Update and Remove with any quantity input.
C16_QuantitiesPositive ==
  \A s \in Sessions : \A i \in DOMAIN cart[s] :
    /\ cart[s][i].quantity \in Nat
    /\ cart[s][i].quantity >= 1
    /\ cart[s][i].quantity # Infinity

RECURSIVE SumOfItemSubtotals(_, _)
SumOfItemSubtotals(items, n) ==
  IF n = 0 THEN 0 ELSE SumOfItemSubtotals(items, n - 1) + items[n].subtotal

\* an order as the claim wants it: an item at least, every item with an
\* integer quantity >= 1 and subtotal = price x quantity, the total the sum
WellFormedOrder(o) ==
  /\ Len(o.items) >= 1
  /\ \A k \in DOMAIN o.items :
       /\ o.items[k].quantity \in Nat \ {Infinity}
       /\ o.items[k].quantity >= 1
       /\ o.items[k].subtotal = o.items[k].price * o.items[k].quantity
  /\ o.total = SumOfItemSubtotals(o.items, Len(o.items))

\* C17: every order of the order store is well-formed, and the order a
\* POST /checkout appends has one item per line of the session's cart that
\* resolves in the catalog at that moment, in cart order, with the line's
\* quantity and the catalog's price.
C17_OrdersWellFormed ==
  [][ /\ \A i \in DOMAIN OrderStore' : WellFormedOrder(OrderStore'[i])
      /\ last'.outcome = "committed"
         => LET lines == ResolvableLines(CatalogRead, cart[last'.sid])
                items == OrderStore'[Len(OrderStore')].items
            IN /\ Len(items) = Len(lines)
               /\ \A k \in DOMAIN items :
                    /\ items[k].productId = lines[k].productId
                    /\ items[k].quantity = lines[k].quantity
                    /\ items[k].price = PriceIn(CatalogRead, lines[k].productId) ]_vars

HasUser(id) == \E j \in DOMAIN UserStore : UserStore[j].id = id

\* C18: the userId of a session is absent or the id of a user of the user
\* store, and the userId of every order of the order store is the id of a
\* user of the user store, however the registrations of the sessions
\* interleave.
C18_IdentitiesResolve ==
  /\ \A s \in Sessions : userId[s] = 0 \/ HasUser(userId[s])
  /\ \A i \in DOMAIN OrderStore : HasUser(OrderStore[i].userId)

\* C19: a step taken for one session leaves the cart of every other session
\* as it is, and a step taken for none leaves every cart as it is.
C19_CartsIsolated ==
  [][ \A s \in Sessions : s # last'.sid => cart'[s] = cart[s] ]_vars

\* one session has removed p1 from its cart, or committed its order, while the
\* other holds p1 in its cart
C19_Witness ==
  /\ last.op \in {"POST /cart/remove", "POST /checkout"}
  /\ last.outcome \in {"removed", "committed"}
  /\ cart[last.sid] = <<>>
  /\ \E s \in Sessions : s # last.sid /\ HasLine(cart[s], "p1")
  /\ \E i \in DOMAIN OrderStore : OrderStore[i].userId = userId[last.sid]

\* the orders of the store that carry the identity
OrdersOf(orders, identity) == SelectSeq(orders, LAMBDA o : o.userId = identity)

\* C20: the order-history view of a session shows exactly the orders of the
\* order store that carry the session's identity, and the orders of the store
\* that carry an identity are not changed by a request of a session that
\* carries another identity.
C20_OrderHistoryConfidential ==
  [][ /\ (last'.op = "GET /orders" /\ last'.outcome = "rendered")
         => last'.shown = OrdersOf(OrderStore, userId[last'.sid])
      /\ \A s \in Sessions :
           (userId[s] # 0 /\ last'.sid \in Sessions /\ userId[last'.sid] # userId[s])
           => OrdersOf(OrderStore', userId[s]) = OrdersOf(OrderStore, userId[s]) ]_vars
====
